---------------------------- MODULE Spec2Model ----------------------------
(***************************************************************************)
(* Model of lib/utils/anchor_encoder.py (3DSSD): the angle discretizer and *)
(* the log-anchor, distance-anchor and anchor-free box encoders.           *)
(*                                                                         *)
(* Numbers are IEEE-754 binary64 values, as numpy computes them.  A value  *)
(* is a record [s, m, e] standing for (-1)^s * m * 2^e, where m is a       *)
(* natural number of exactly MantBits bits (or zero).  Naturals wider than *)
(* the model checker's integers are little-endian sequences of limbs in    *)
(* 0..Base-1.  Every arithmetic operator computes the exact result and     *)
(* rounds it to nearest, ties to even, as the hardware does.               *)
(***************************************************************************)
EXTENDS Integers, Sequences, FiniteSets

---------------------------------------------------------------------------
(* Multi-limb naturals                                                     *)

LimbBits == 15
Base == 32768
MantBits == 53

Rest(a) == IF a = <<>> THEN <<>> ELSE Tail(a)
Low(a) == IF a = <<>> THEN 0 ELSE Head(a)
Limb(a, i) == IF i <= Len(a) THEN a[i] ELSE 0
Min(a, b) == IF a < b THEN a ELSE b

RECURSIVE BTrim(_)
BTrim(a) ==
    IF a = <<>> THEN <<>>
    ELSE IF a[Len(a)] = 0 THEN BTrim(SubSeq(a, 1, Len(a) - 1)) ELSE a

RECURSIVE BAddC(_, _, _)
BAddC(a, b, c) ==
    IF a = <<>> /\ b = <<>> THEN (IF c = 0 THEN <<>> ELSE <<c>>)
    ELSE <<(Low(a) + Low(b) + c) % Base>>
         \o BAddC(Rest(a), Rest(b), (Low(a) + Low(b) + c) \div Base)

BAdd(a, b) == BAddC(a, b, 0)

RECURSIVE BSubC(_, _, _)
BSubC(a, b, c) ==
    IF a = <<>> THEN <<>>
    ELSE <<(Low(a) - Low(b) - c + Base) % Base>>
         \o BSubC(Rest(a), Rest(b), IF Low(a) - Low(b) - c < 0 THEN 1 ELSE 0)

\* a - b for a >= b
BSub(a, b) == BTrim(BSubC(a, b, 0))

RECURSIVE BCmpFrom(_, _, _)
BCmpFrom(a, b, i) ==
    IF i = 0 THEN 0
    ELSE IF a[i] > b[i] THEN 1
    ELSE IF a[i] < b[i] THEN -1
    ELSE BCmpFrom(a, b, i - 1)

\* -1, 0, 1 as a < b, a = b, a > b
BCmp(a, b) ==
    IF Len(a) > Len(b) THEN 1
    ELSE IF Len(a) < Len(b) THEN -1
    ELSE BCmpFrom(a, b, Len(a))

RECURSIVE BMulSmallC(_, _, _)
BMulSmallC(a, k, c) ==
    IF a = <<>> THEN (IF c = 0 THEN <<>> ELSE <<c>>)
    ELSE <<(Head(a) * k + c) % Base>>
         \o BMulSmallC(Tail(a), k, (Head(a) * k + c) \div Base)

\* a * k for 0 <= k < Base
BMulSmall(a, k) == BTrim(BMulSmallC(a, k, 0))

RECURSIVE BDivSmallFrom(_, _, _, _)
BDivSmallFrom(a, k, i, r) ==
    IF i = 0 THEN <<>>
    ELSE BDivSmallFrom(a, k, i - 1, (r * Base + a[i]) % k)
         \o <<(r * Base + a[i]) \div k>>

\* a \div k for 0 < k <= Base
BDivSmall(a, k) == BTrim(BDivSmallFrom(a, k, Len(a), 0))

Zeros(n) == [i \in 1..n |-> 0]

\* a * 2^k
BShl(a, k) ==
    IF a = <<>> THEN <<>>
    ELSE Zeros(k \div LimbBits) \o BMulSmall(a, 2 ^ (k % LimbBits))

\* a \div 2^k
BShr(a, k) ==
    IF Len(a) <= k \div LimbBits THEN <<>>
    ELSE BDivSmall(SubSeq(a, (k \div LimbBits) + 1, Len(a)), 2 ^ (k % LimbBits))

\* bit i (from 0) of a
BBit(a, i) == (Limb(a, (i \div LimbBits) + 1) \div (2 ^ (i % LimbBits))) % 2

\* whether a has a 1 among its k lowest bits
BLowBits(a, k) ==
    \E i \in 1..Len(a) :
        \/ i <= k \div LimbBits /\ a[i] # 0
        \/ i = (k \div LimbBits) + 1 /\ a[i] % (2 ^ (k % LimbBits)) # 0

BitLen(v) == CHOOSE n \in 0..LimbBits : v < 2 ^ n /\ (n = 0 \/ v >= 2 ^ (n - 1))

\* the number of bits of a
BBits(a) == IF a = <<>> THEN 0 ELSE LimbBits * (Len(a) - 1) + BitLen(a[Len(a)])

\* Long division in base Base.  The divisor's top limb is at least Base / 2,
\* so the quotient limb estimated from the top limbs is at most 2 too large.
QHat(r, b) ==
    Min(Base - 1, (Limb(r, Len(b) + 1) * Base + Limb(r, Len(b))) \div b[Len(b)])

DigitFix(r, b, h) ==
    IF BCmp(BMulSmall(b, h), r) <= 0 THEN h
    ELSE IF BCmp(BMulSmall(b, h - 1), r) <= 0 THEN h - 1
    ELSE h - 2

\* the largest t with t * b <= r, for r < b * Base
Digit(r, b) == DigitFix(r, b, QHat(r, b))

RECURSIVE BDivLoop(_, _, _, _, _)
RECURSIVE BDivNext(_, _, _, _, _)
RECURSIVE BDivPut(_, _, _, _, _, _)
BDivLoop(a, b, i, q, r) ==
    IF i = 0 THEN <<q, r>>
    ELSE BDivNext(a, b, i, q, BTrim(<<a[i]>> \o r))

BDivNext(a, b, i, q, r) == BDivPut(a, b, i, q, r, Digit(r, b))

BDivPut(a, b, i, q, r, t) ==
    BDivLoop(a, b, i - 1, <<t>> \o q, BSub(r, BMulSmall(b, t)))

BDivStart(a, b) ==
    IF Len(a) < Len(b) THEN <<<<>>, a>>
    ELSE BDivLoop(a, b, Len(a) - Len(b) + 1, <<>>,
                  SubSeq(a, Len(a) - Len(b) + 2, Len(a)))

BDivOut(qr, sh) == <<BTrim(qr[1]), BShr(qr[2], sh)>>

BDivNormal(a, b, sh) == BDivOut(BDivStart(BShl(a, sh), BShl(b, sh)), sh)

\* <<a \div b, a % b>> for b > 0
BDivMod(a, b) == BDivNormal(a, b, LimbBits - BitLen(b[Len(b)]))

RECURSIVE BMul(_, _)
BMul(a, b) ==
    IF b = <<>> \/ a = <<>> THEN <<>>
    ELSE BAdd(BMulSmall(a, Head(b)), BShl(BMul(a, Tail(b)), LimbBits))

RECURSIVE BFromNat(_)
BFromNat(n) == IF n = 0 THEN <<>> ELSE <<n % Base>> \o BFromNat(n \div Base)

RECURSIVE BToNat(_)
BToNat(a) == IF a = <<>> THEN 0 ELSE Head(a) + Base * BToNat(Tail(a))

---------------------------------------------------------------------------
(* binary64 values and their arithmetic                                    *)

Zero == [s |-> 0, m |-> <<>>, e |-> 0]

IsZero(x) == x.m = <<>>

\* rounding m to its bits above the lowest k goes up: to nearest, ties to even
RoundsUp(m, k) ==
    BBit(m, k - 1) = 1 /\ (BLowBits(m, k - 1) \/ BBit(m, k) = 1)

FNorm(s, q, e) ==
    IF BBits(q) > MantBits THEN [s |-> s, m |-> BShr(q, 1), e |-> e + 1]
    ELSE [s |-> s, m |-> q, e |-> e]

FRoundQ(s, q, up, e) ==
    IF up THEN FNorm(s, BAdd(q, <<1>>), e) ELSE [s |-> s, m |-> q, e |-> e]

FRoundN(s, m, e, n) ==
    IF n = 0 THEN Zero
    ELSE IF n <= MantBits
    THEN [s |-> s, m |-> BShl(m, MantBits - n), e |-> e - (MantBits - n)]
    ELSE FRoundQ(s, BShr(m, n - MantBits), RoundsUp(m, n - MantBits),
                 e + (n - MantBits))

\* the binary64 nearest to (-1)^s * m * 2^e
FRound(s, m, e) == FRoundN(s, m, e, BBits(m))

FRoundT(t) == FRound(t.s, t.m, t.e)

FNeg(x) == IF IsZero(x) THEN x ELSE [x EXCEPT !.s = 1 - x.s]

\* -1, 0, 1 as |x| < |y|, |x| = |y|, |x| > |y|
FCmpMag(x, y) ==
    IF IsZero(x) THEN (IF IsZero(y) THEN 0 ELSE -1)
    ELSE IF IsZero(y) THEN 1
    ELSE IF x.e > y.e THEN 1
    ELSE IF x.e < y.e THEN -1
    ELSE BCmp(x.m, y.m)

\* -1, 0, 1 as x < y, x = y, x > y
FCmp(x, y) ==
    IF IsZero(x) /\ IsZero(y) THEN 0
    ELSE IF IsZero(x) THEN (IF y.s = 1 THEN 1 ELSE -1)
    ELSE IF IsZero(y) THEN (IF x.s = 1 THEN -1 ELSE 1)
    ELSE IF x.s # y.s THEN (IF x.s = 1 THEN -1 ELSE 1)
    ELSE IF x.s = 0 THEN FCmpMag(x, y) ELSE -FCmpMag(x, y)

FLe(x, y) == FCmp(x, y) <= 0
FLt(x, y) == FCmp(x, y) < 0

FSumAligned(sa, a, sb, b, e) ==
    IF sa = sb THEN [s |-> sa, m |-> BAdd(a, b), e |-> e]
    ELSE IF BCmp(a, b) >= 0 THEN [s |-> sa, m |-> BSub(a, b), e |-> e]
    ELSE [s |-> sb, m |-> BSub(b, a), e |-> e]

\* x + y before rounding, as [s, m, e] with m of any width
FSum(x, y) ==
    IF IsZero(x) THEN y
    ELSE IF IsZero(y) THEN x
    ELSE FSumAligned(x.s, BShl(x.m, x.e - Min(x.e, y.e)),
                     y.s, BShl(y.m, y.e - Min(x.e, y.e)), Min(x.e, y.e))

\* x + y
FAdd(x, y) == FRoundT(FSum(x, y))

\* x - y
FSub(x, y) == FAdd(x, FNeg(y))

FitsN(m, n) == n <= MantBits \/ ~BLowBits(m, n - MantBits)

\* whether x + y is a binary64, so that FAdd(x, y) is the sum itself
ExactSum(x, y) == FitsN(FSum(x, y).m, BBits(FSum(x, y).m))

\* whether x * y is a binary64, so that FMul(x, y) is the product itself
ExactProd(x, y) ==
    IsZero(x) \/ IsZero(y) \/ FitsN(BMul(x.m, y.m), BBits(BMul(x.m, y.m)))

\* x * y
FMul(x, y) ==
    IF IsZero(x) \/ IsZero(y) THEN Zero
    ELSE FRound((x.s + y.s) % 2, BMul(x.m, y.m), x.e + y.e)

FDivQ(s, qr, e) ==
    FRound(s, BTrim(BMulSmallC(qr[1], 2, IF qr[2] = <<>> THEN 0 ELSE 1)), e)

\* x / y for y # 0: the quotient to 56 bits or more and a sticky bit, rounded
FDiv(x, y) ==
    IF IsZero(x) THEN Zero
    ELSE FDivQ((x.s + y.s) % 2, BDivMod(BShl(x.m, MantBits + 3), y.m),
               x.e - y.e - (MantBits + 4))

\* the integer n as a binary64 (exact for |n| < 2^31)
FInt(n) == IF n < 0 THEN FRound(1, BFromNat(-n), 0) ELSE FRound(0, BFromNat(n), 0)

FTruncMag(x) ==
    IF x.e >= 0 THEN BToNat(BShl(x.m, x.e)) ELSE BToNat(BShr(x.m, -x.e))

\* x truncated toward zero, as an integer: astype(np.int)
FTrunc(x) ==
    IF IsZero(x) THEN 0 ELSE IF x.s = 1 THEN -FTruncMag(x) ELSE FTruncMag(x)

RECURSIVE BSqrtLoop(_, _)
RECURSIVE BSqrtNext(_, _, _)
BSqrtLoop(n, x) == BSqrtNext(n, x, BShr(BAdd(x, BDivMod(n, x)[1]), 1))

BSqrtNext(n, x, y) == IF BCmp(y, x) >= 0 THEN x ELSE BSqrtLoop(n, y)

\* the integer square root of n > 0, by Newton's iteration from above
BSqrt(n) == BSqrtLoop(n, BShl(<<1>>, (BBits(n) + 1) \div 2))

FSqrtR(n, r, h) ==
    FRound(0, BTrim(BMulSmallC(r, 2, IF BMul(r, r) = n THEN 0 ELSE 1)), h - 1)

FSqrtN(n, e) == FSqrtR(n, BSqrt(n), e \div 2)

\* the square root of x >= 0: the root of the mantissa to 55 bits or more
\* and a sticky bit, rounded
FSqrt(x) ==
    IF IsZero(x) THEN Zero
    ELSE FSqrtN(BShl(x.m, MantBits + 5 + (x.e % 2)), x.e - (MantBits + 5 + (x.e % 2)))

\* C fmod of |x| by y: exact
FRem(x, y) ==
    FRound(0, BDivMod(BShl(x.m, x.e - Min(x.e, y.e)),
                      BShl(y.m, y.e - Min(x.e, y.e)))[2], Min(x.e, y.e))

FModSign(s, f, y) ==
    IF IsZero(f) THEN Zero ELSE IF s = 1 THEN FAdd(FNeg(f), y) ELSE f

\* a remainder that keeps the sign of x, as C fmod and math.fmod do
FMod_fmod(x, y) ==
    IF IsZero(x) THEN Zero
    ELSE IF x.s = 1 THEN FNeg(FRem(x, y)) ELSE FRem(x, y)

\* numpy's x % y for y > 0: C fmod, which has the sign of x, moved into
\* [0, y] by adding y when it is negative; that addition rounds
FMod(x, y) == IF IsZero(x) THEN Zero ELSE FModSign(x.s, FRem(x, y), y)

\* np.pi = 0x400921FB54442D18
Pi == [s |-> 0, m |-> <<11544, 10376, 2029, 201>>, e |-> -51]
TwoPi == FMul(FInt(2), Pi)

Half(x) == FDiv(x, FInt(2))

---------------------------------------------------------------------------
(* Encode Angle                                                            *)

angle_per_class(n) == FDiv(TwoPi, FInt(n))

shifted_angle(a, apc) == FMod(FAdd(a, Half(apc)), TwoPi)

class_id(shifted, apc) == FTrunc(FDiv(shifted, apc))

\* the residual measured from the start of the bin, not from its centre
residual_angle_from_start(shifted, cid, apc) == FSub(shifted, FMul(FInt(cid), apc))

residual_angle(shifted, cid, apc) ==
    FSub(shifted, FAdd(FMul(FInt(cid), apc), Half(apc)))

encode_residual(a, shifted, cid, apc, n) ==
    [ok |-> TRUE,
     normalized |-> a,
     class_id |-> cid,
     residual |-> FDiv(residual_angle(shifted, cid, apc), FDiv(TwoPi, FInt(n)))]

encode_class(a, shifted, apc, n) ==
    encode_residual(a, shifted, class_id(shifted, apc), apc, n)

encode_shifted(a, apc, n) == encode_class(a, shifted_angle(a, apc), apc, n)

\* the assertion of line 13 on the angle a after the first modulo
encode_asserted(a, n) ==
    IF FLe(Zero, a) /\ FLe(a, TwoPi)
    THEN encode_shifted(a, angle_per_class(n), n)
    ELSE [ok |-> FALSE, normalized |-> a, class_id |-> -1, residual |-> Zero]

\* the encoder without its first modulo
encode_angle2class_np_unwrapped(a, n) == encode_asserted(a, n)

\* encode_angle2class_np on one angle: ok tells whether the assertion held,
\* normalized is the angle after the first modulo
encode_angle2class_np(a, n) == encode_asserted(FMod(a, TwoPi), n)

\* the angle a caller rebuilds from a class and a residual:
\* (class_id + residual) * (2 * pi / num_class)
decode_class2angle(cid, res, n) ==
    FMul(FAdd(FInt(cid), res), FDiv(TwoPi, FInt(n)))

---------------------------------------------------------------------------
(* Tensors: a [bs, points_num, k] tensor is a sequence of sequences of     *)
(* sequences of numbers, a [bs, points_num] tensor one level less.         *)

\* tf.unstack(t, axis=-1)[c]: component c of every vector, [bs, points_num]
Unstack(t, c) == [i \in DOMAIN t |-> [j \in DOMAIN t[i] |-> t[i][j][c]]]

\* t[:, :, c]: component c of every vector, [bs, points_num]
Slice(t, c) == [i \in DOMAIN t |-> [j \in DOMAIN t[i] |-> t[i][j][c]]]

\* tf.stack([a, b, c], axis=-1) of [bs, points_num] tensors
Stack3(a, b, c) ==
    [i \in DOMAIN a |-> [j \in DOMAIN a[i] |-> <<a[i][j], b[i][j], c[i][j]>>]]

Stack2(a, b) ==
    [i \in DOMAIN a |-> [j \in DOMAIN a[i] |-> <<a[i][j], b[i][j]>>]]

\* np.stack([a, b, c], axis=-1) of [bs, points_num] tensors
NpStack3(a, b, c) ==
    [i \in DOMAIN a |-> [j \in DOMAIN a[i] |-> <<a[i][j]>> \o <<b[i][j]>> \o <<c[i][j]>>]]

\* np.split(t, 3, axis=-1)[c]: component c kept as a [bs, points_num, 1] tensor
Split(t, c) == [i \in DOMAIN t |-> [j \in DOMAIN t[i] |-> <<t[i][j][c]>>]]

\* np.concatenate([a, b, c], axis=-1)
Concat3(a, b, c) ==
    [i \in DOMAIN a |-> [j \in DOMAIN a[i] |-> a[i][j] \o b[i][j] \o c[i][j]]]

Concat2(a, b) ==
    [i \in DOMAIN a |-> [j \in DOMAIN a[i] |-> a[i][j] \o b[i][j]]]

MaxLogUlp == 1

\* tf.log and np.log are not correctly rounded: the double a library returns
\* for an argument lies some units in the last place from the rounded
\* logarithm (counted toward +infinity, negative toward -infinity), and how
\* many depends on the library, on the build and on the argument
LogUlps == (-MaxLogUlp)..MaxLogUlp

\* the units log(x) may lie from the rounded logarithm: log(1.0) is 0.0
LogUlpsOf(x) == IF x = FInt(1) THEN {0} ELSE LogUlps

\* tf.log(x) and np.log(x): the logarithm is not computed here; the result is
\* the term that names the library, the argument, and the units in the last
\* place from the rounded logarithm of the argument that the value may lie
TfLog(x) == [log |-> x, by |-> "tf.log", ulps |-> LogUlpsOf(x)]

NpLog(x) == [log |-> x, by |-> "np.log", ulps |-> LogUlpsOf(x)]

\* a - b, a / b and log(a / b), elementwise on [bs, points_num] tensors
Sub2(a, b) ==
    [i \in DOMAIN a |-> [j \in DOMAIN a[i] |-> FSub(a[i][j], b[i][j])]]

Div2(a, b) ==
    [i \in DOMAIN a |-> [j \in DOMAIN a[i] |-> FDiv(a[i][j], b[i][j])]]

LogOfRatio2(a, b) ==
    [i \in DOMAIN a |-> [j \in DOMAIN a[i] |-> TfLog(FDiv(a[i][j], b[i][j]))]]

\* a - b, a / b and log(a / b), elementwise on [bs, points_num, k] tensors
Sub3(a, b) ==
    [i \in DOMAIN a |-> [j \in DOMAIN a[i] |->
        [c \in DOMAIN a[i][j] |-> FSub(a[i][j][c], b[i][j][c])]]]

Div3(a, b) ==
    [i \in DOMAIN a |-> [j \in DOMAIN a[i] |->
        [c \in DOMAIN a[i][j] |-> FDiv(a[i][j][c], b[i][j][c])]]]

LogOfRatio3(a, b) ==
    [i \in DOMAIN a |-> [j \in DOMAIN a[i] |->
        [c \in DOMAIN a[i][j] |-> NpLog(FDiv(a[i][j][c], b[i][j][c]))]]]

\* tf.norm over a last axis of two: sqrt(reduce_sum(x * conj(x)))
TfNorm(v) == FSqrt(FAdd(FMul(v[1], v[1]), FMul(v[2], v[2])))

\* tf.norm(t, axis=-1): [bs, points_num, 2] to [bs, points_num]
NormLast(t) == [i \in DOMAIN t |-> [j \in DOMAIN t[i] |-> TfNorm(t[i][j])]]

\* np.linalg.norm over a last axis of two: sqrt(add.reduce((x.conj() * x).real))
NpNorm(v) == FSqrt(FAdd(FMul(v[1], v[1]), FMul(v[2], v[2])))

\* np.linalg.norm(t, axis=-1, keepdims=True): to [bs, points_num, 1]
NormLastKeep(t) == [i \in DOMAIN t |-> [j \in DOMAIN t[i] |-> <<NpNorm(t[i][j])>>]]

\* t / 2.
HalfOf(t) ==
    [i \in DOMAIN t |-> [j \in DOMAIN t[i] |->
        [c \in DOMAIN t[i][j] |-> Half(t[i][j][c])]]]

\* tf.zeros_like of a [bs, points_num] tensor
ZerosLike(t) == [i \in DOMAIN t |-> [j \in DOMAIN t[i] |-> Zero]]

\* np.zeros_like of a [bs, points_num] tensor
NpZerosLike(t) == [i \in DOMAIN t |-> [j \in DOMAIN t[i] |-> FInt(0)]]

---------------------------------------------------------------------------
(* Log-Anchor                                                               *)

encode_log_anchor(gt_ctr, gt_offset, anchor_ctr, anchor_offset) ==
    [ctr |-> Stack3(
        Div2(Sub2(Unstack(gt_ctr, 1), Unstack(anchor_ctr, 1)),
             NormLast(Stack2(Unstack(anchor_offset, 1), Unstack(anchor_offset, 3)))),
        Div2(Sub2(Unstack(gt_ctr, 2), Unstack(anchor_ctr, 2)),
             Unstack(anchor_offset, 2)),
        Div2(Sub2(Unstack(gt_ctr, 3), Unstack(anchor_ctr, 3)),
             NormLast(Stack2(Unstack(anchor_offset, 1), Unstack(anchor_offset, 3))))),
     offset |-> Stack3(
        LogOfRatio2(Unstack(gt_offset, 1), Unstack(anchor_offset, 1)),
        LogOfRatio2(Unstack(gt_offset, 2), Unstack(anchor_offset, 2)),
        LogOfRatio2(Unstack(gt_offset, 3), Unstack(anchor_offset, 3)))]

\* the numpy encoder with the diagonal taken over length and height
encode_log_anchor_np_lh(gt_ctr, gt_offset, anchor_ctr, anchor_offset) ==
    [ctr |-> Concat3(
        Div3(Sub3(Split(gt_ctr, 1), Split(anchor_ctr, 1)),
             NormLastKeep(Concat2(Split(anchor_offset, 1), Split(anchor_offset, 2)))),
        Div3(Sub3(Split(gt_ctr, 2), Split(anchor_ctr, 2)),
             Split(anchor_offset, 2)),
        Div3(Sub3(Split(gt_ctr, 3), Split(anchor_ctr, 3)),
             NormLastKeep(Concat2(Split(anchor_offset, 1), Split(anchor_offset, 2))))),
     offset |-> Concat3(
        LogOfRatio3(Split(gt_offset, 1), Split(anchor_offset, 1)),
        LogOfRatio3(Split(gt_offset, 2), Split(anchor_offset, 2)),
        LogOfRatio3(Split(gt_offset, 3), Split(anchor_offset, 3)))]

encode_log_anchor_np(gt_ctr, gt_offset, anchor_ctr, anchor_offset) ==
    [ctr |-> Concat3(
        Div3(Sub3(Split(gt_ctr, 1), Split(anchor_ctr, 1)),
             NormLastKeep(Concat2(Split(anchor_offset, 1), Split(anchor_offset, 3)))),
        Div3(Sub3(Split(gt_ctr, 2), Split(anchor_ctr, 2)),
             Split(anchor_offset, 2)),
        Div3(Sub3(Split(gt_ctr, 3), Split(anchor_ctr, 3)),
             NormLastKeep(Concat2(Split(anchor_offset, 1), Split(anchor_offset, 3))))),
     offset |-> Concat3(
        LogOfRatio3(Split(gt_offset, 1), Split(anchor_offset, 1)),
        LogOfRatio3(Split(gt_offset, 2), Split(anchor_offset, 2)),
        LogOfRatio3(Split(gt_offset, 3), Split(anchor_offset, 3)))]

---------------------------------------------------------------------------
(* Dist-Anchor                                                              *)

\* the encoder with the size difference taken relative to the ground truth
encode_dist_anchor_by_gt(gt_ctr, gt_offset, anchor_ctr, anchor_offset) ==
    [ctr |-> Sub3(gt_ctr, anchor_ctr),
     offset |-> Div3(Sub3(gt_offset, anchor_offset), gt_offset)]

encode_dist_anchor(gt_ctr, gt_offset, anchor_ctr, anchor_offset) ==
    [ctr |-> Sub3(gt_ctr, anchor_ctr),
     offset |-> Div3(Sub3(gt_offset, anchor_offset), anchor_offset)]

---------------------------------------------------------------------------
(* Dist-Anchor-Free                                                         *)

\* None where a record is expected (no result yet, no call yet)
None == [none |-> TRUE]

\* anchor_offset=None: the argument left out
NoneTensor == <<>>

\* padding_translate of the tf encoder: (0, half height, 0) for every box
padding_translate(target_ctr_half) ==
    Stack3(ZerosLike(Slice(target_ctr_half, 2)),
           Slice(target_ctr_half, 2),
           ZerosLike(Slice(target_ctr_half, 2)))

\* the encoder with the target taken relative to the anchor's size when given
encode_dist_anchor_free_rel(gt_ctr, gt_offset, anchor_ctr, anchor_offset) ==
    [ctr |-> Sub3(Sub3(gt_ctr, padding_translate(HalfOf(gt_offset))),
                  anchor_ctr),
     offset |-> IF anchor_offset = NoneTensor THEN HalfOf(gt_offset)
                ELSE HalfOf(Sub3(gt_offset, anchor_offset))]

encode_dist_anchor_free(gt_ctr, gt_offset, anchor_ctr, anchor_offset) ==
    [ctr |-> Sub3(Sub3(gt_ctr, padding_translate(HalfOf(gt_offset))),
                  anchor_ctr),
     offset |-> HalfOf(gt_offset)]

\* padding_translate of the numpy encoder
padding_translate_np(target_ctr_half) ==
    NpStack3(NpZerosLike(Slice(target_ctr_half, 2)),
             Slice(target_ctr_half, 2),
             NpZerosLike(Slice(target_ctr_half, 2)))

\* the numpy encoder with the translation taken from the length (index 0)
encode_dist_anchor_free_np_length(gt_ctr, gt_offset, anchor_ctr, anchor_offset) ==
    [ctr |-> Sub3(Sub3(gt_ctr,
                       NpStack3(NpZerosLike(Slice(HalfOf(gt_offset), 1)),
                                Slice(HalfOf(gt_offset), 1),
                                NpZerosLike(Slice(HalfOf(gt_offset), 1)))),
                  anchor_ctr),
     offset |-> HalfOf(gt_offset)]

encode_dist_anchor_free_np(gt_ctr, gt_offset, anchor_ctr, anchor_offset) ==
    [ctr |-> Sub3(Sub3(gt_ctr, padding_translate_np(HalfOf(gt_offset))),
                  anchor_ctr),
     offset |-> HalfOf(gt_offset)]

---------------------------------------------------------------------------
(* Inputs                                                                  *)

MaxClass == 4
MaxGrid == 12
MaxUlp == 1
MaxShift == 2
FarShift == 11
GridPerTurn == 12
TinyBits == 56


\* x moved j units in the last place away from zero (j < 0: toward zero);
\* around zero, j steps of 2^-TinyBits
Nudge(x, j) ==
    IF IsZero(x) THEN (IF j < 0 THEN FRound(1, BFromNat(-j), -TinyBits)
                               ELSE FRound(0, BFromNat(j), -TinyBits))
    ELSE IF j < 0 THEN FRound(x.s, BSub(x.m, BFromNat(-j)), x.e)
    ELSE FRound(x.s, BAdd(x.m, BFromNat(j)), x.e)

GridAngle(k) == FDiv(FMul(FInt(k), TwoPi), FInt(GridPerTurn))

Angles ==
    {Nudge(GridAngle(k), j) :
        k \in (-MaxGrid)..MaxGrid,
        j \in (-MaxUlp)..MaxUlp}

MaxBatch == 1
MaxPoints == 2

\* -1.5, 0.1, 0.7 as binary64
Ratio(p, q) == FDiv(FInt(p), FInt(q))

\* boxes: a centre (x, y, z) and an offset (length, height, width)
Boxes ==
    << [ctr |-> <<FInt(1), FInt(2), FInt(3)>>,
        offset |-> <<FInt(2), FInt(4), FInt(6)>>],
       [ctr |-> <<Zero, Zero, Zero>>,
        offset |-> <<FInt(1), FInt(2), FInt(3)>>],
       [ctr |-> <<Ratio(-3, 2), Ratio(1, 10), FInt(7)>>,
        offset |-> <<FInt(3), Ratio(7, 10), FInt(4)>>] >>

BoxAt(k) == Boxes[(k % Len(Boxes)) + 1]

\* the [bs, n, 3] tensors of centres and of offsets whose box at (i, j) is
\* box k + i + d * j of the list
CtrTensor(bs, n, k, d) ==
    [i \in 1..bs |-> [j \in 1..n |-> BoxAt(k + i + d * j).ctr]]

OffsetTensor(bs, n, k, d) ==
    [i \in 1..bs |-> [j \in 1..n |-> BoxAt(k + i + d * j).offset]]

VARIABLES angle, num_class, pc, result, how, prev, exact, turns, box, last, before

vars == <<angle, num_class, pc, result, how, prev, exact, turns, box, last, before>>

anglevars == <<angle, num_class, pc, result, how, prev, exact, turns>>
boxvars == <<box, last, before>>

Init ==
    /\ angle \in Angles
    /\ num_class \in 1..MaxClass
    /\ pc = "ready"
    /\ result = None
    /\ how = "given"
    /\ prev = None
    /\ exact = TRUE
    /\ turns = 0
    /\ box = None
    /\ last = None
    /\ before = None

\* one call of encode_angle2class_np; a failed assertion halts it
Encode ==
    /\ pc = "ready"
    /\ LET out == encode_angle2class_np(angle, num_class)
       IN  /\ pc' = IF out.ok THEN "encoded" ELSE "halted"
           /\ result' = out
    /\ UNCHANGED <<angle, num_class, how, prev, exact, turns>>
    /\ UNCHANGED boxvars

\* the numbers of turns the caller shifts by: the small ones, and one far
\* enough for the product k * (2 * np.pi) to round (it first does at 11)
Shifts == (((-MaxShift)..MaxShift) \ {0}) \cup {-FarShift, FarShift}

\* the caller encodes angle + k * (2 * np.pi) next, computed in binary64;
\* exact records whether neither the product nor the sum rounded
Shift(k) ==
    /\ pc = "encoded"
    /\ how = "given"
    /\ angle' = FAdd(angle, FMul(FInt(k), TwoPi))
    /\ exact' = (/\ ExactProd(FInt(k), TwoPi)
                 /\ ExactSum(angle, FMul(FInt(k), TwoPi)))
    /\ turns' = k
    /\ prev' = result
    /\ result' = None
    /\ how' = "shifted"
    /\ pc' = "ready"
    /\ UNCHANGED num_class
    /\ UNCHANGED boxvars

\* the caller rebuilds the angle from the pair and encodes it again
Decode ==
    /\ pc = "encoded"
    /\ how = "given"
    /\ angle' = decode_class2angle(result.class_id, result.residual, num_class)
    /\ prev' = result
    /\ result' = None
    /\ how' = "decoded"
    /\ pc' = "ready"
    /\ UNCHANGED <<num_class, exact, turns>>
    /\ UNCHANGED boxvars

Next ==
    \/ Encode
    \/ \E k \in Shifts : Shift(k)
    \/ Decode

Spec == Init /\ [][Next]_vars

---------------------------------------------------------------------------
(* The box encoders: a caller encodes a batch, may replace the anchors,    *)
(* and encodes again.                                                      *)

InitBox ==
    /\ angle = Zero
    /\ num_class = 1
    /\ pc = "idle"
    /\ result = None
    /\ how = "given"
    /\ prev = None
    /\ exact = TRUE
    /\ turns = 0
    /\ \E bs \in 1..MaxBatch, n \in 1..MaxPoints, g \in 1..Len(Boxes), a \in 1..Len(Boxes) :
          box = [gt_ctr |-> CtrTensor(bs, n, g, 1),
                 gt_offset |-> OffsetTensor(bs, n, g, 1),
                 anchor_ctr |-> CtrTensor(bs, n, a, 2),
                 anchor_offset |-> OffsetTensor(bs, n, a, 2)]
    /\ last = None
    /\ before = None

\* the kind of encoder a call belongs to
Family(name) ==
    CASE name \in {"log_tf", "log_np"} -> "log"
      [] name \in {"free_tf", "free_np"} -> "free"
      [] OTHER -> name

\* a call returns out; a second call is of an encoder of the same kind
Called(name, out) ==
    /\ before = None
    /\ last # None => Family(last.call) = Family(name)
    /\ last' = [call |-> name, box |-> box, out |-> out]
    /\ before' = last
    /\ UNCHANGED box
    /\ UNCHANGED anglevars

EncodeLogAnchor ==
    /\ box.anchor_offset # NoneTensor
    /\ Called("log_tf", encode_log_anchor(box.gt_ctr, box.gt_offset,
                                          box.anchor_ctr, box.anchor_offset))

EncodeLogAnchorNp ==
    /\ box.anchor_offset # NoneTensor
    /\ Called("log_np", encode_log_anchor_np(box.gt_ctr, box.gt_offset,
                                             box.anchor_ctr, box.anchor_offset))

EncodeDistAnchor ==
    /\ box.anchor_offset # NoneTensor
    /\ Called("dist", encode_dist_anchor(box.gt_ctr, box.gt_offset,
                                         box.anchor_ctr, box.anchor_offset))

EncodeDistAnchorFree ==
    /\ Called("free_tf", encode_dist_anchor_free(box.gt_ctr, box.gt_offset,
                                              box.anchor_ctr, box.anchor_offset))

EncodeDistAnchorFreeNp ==
    /\ Called("free_np", encode_dist_anchor_free_np(box.gt_ctr, box.gt_offset,
                                                 box.anchor_ctr, box.anchor_offset))

\* between two calls of the anchor-free encoder the caller omits the anchor
\* offsets, or takes other anchor offsets, or other anchors altogether
ChangeAnchor ==
    /\ last # None
    /\ before = None
    /\ last.call \in {"free_tf", "free_np"}
    /\ box = last.box
    /\ \E k \in 1..(Len(Boxes) - 1) :
          \/ box' = [box EXCEPT !.anchor_offset = NoneTensor]
          \/ box' = [box EXCEPT !.anchor_offset =
                        OffsetTensor(Len(box.gt_ctr), Len(box.gt_ctr[1]), k, 2)]
          \/ box' = [box EXCEPT
                        !.anchor_ctr =
                            CtrTensor(Len(box.gt_ctr), Len(box.gt_ctr[1]), k, 2),
                        !.anchor_offset =
                            OffsetTensor(Len(box.gt_ctr), Len(box.gt_ctr[1]), k, 2)]
    /\ box' # box
    /\ UNCHANGED <<last, before>>
    /\ UNCHANGED anglevars

\* between two calls of the anchor-free encoder the caller takes ground-truth
\* boxes of another length and width, of the same height
ChangeSize ==
    /\ last # None
    /\ before = None
    /\ last.call \in {"free_tf", "free_np"}
    /\ box = last.box
    /\ \E k \in 1..(Len(Boxes) - 1) :
          box' = [box EXCEPT !.gt_offset =
                    [i \in DOMAIN box.gt_offset |-> [j \in DOMAIN box.gt_offset[i] |->
                        << BoxAt(k + i + j).offset[1],
                           box.gt_offset[i][j][2],
                           BoxAt(k + i + j).offset[3] >>]]]
    /\ box' # box
    /\ UNCHANGED <<last, before>>
    /\ UNCHANGED anglevars

NextBox ==
    \/ EncodeLogAnchor
    \/ EncodeLogAnchorNp
    \/ EncodeDistAnchor
    \/ EncodeDistAnchorFree
    \/ EncodeDistAnchorFreeNp
    \/ ChangeAnchor
    \/ ChangeSize

SpecBox == InitBox /\ [][NextBox]_vars

---------------------------------------------------------------------------
(* Properties of the angle encoder                                         *)

Encoded == pc = "encoded"

SamePair(p, q) == p.class_id = q.class_id /\ p.residual = q.residual

FAbs(x) == IF IsZero(x) THEN x ELSE [x EXCEPT !.s = 0]

Tolerance == FRound(0, <<1>>, -48)

\* x and y, both in [0, 2 pi], are within Tolerance of each other modulo 2 pi
CloseMod2Pi(x, y) ==
    \/ FLe(FAbs(FSub(x, y)), Tolerance)
    \/ FLe(FSub(TwoPi, Tolerance), FAbs(FSub(x, y)))

\* C1: for every num_class >= 1 and every finite angle, the class_id that
\* encode_angle2class_np returns is an integer in 0..num_class-1.
C1_ClassIdInRange ==
    Encoded => result.class_id \in 0..(num_class - 1)

\* C2: for every num_class >= 1 and every finite angle, the residual that
\* encode_angle2class_np returns lies in the closed interval [0, 1].
C2_ResidualInUnitInterval ==
    Encoded => FLe(Zero, result.residual) /\ FLe(result.residual, FInt(1))

\* C3 as stated: encoding angle + 2*pi*k returns the same (class_id,
\* residual) pair as encoding angle, for every angle and every integer k.
C3_PeriodicAlways ==
    (Encoded /\ how = "shifted") => SamePair(result, prev)

\* C3 amended: whenever angle + k * (2*pi) is computed without rounding (the
\* product k * (2*np.pi) and its sum with angle are both exact in binary64,
\* so the function receives angle plus k whole periods), encoding it returns
\* the same (class_id, residual) pair as encoding angle.
C3_PeriodicWhenExact ==
    (how = "shifted" /\ exact /\ pc # "ready")
        => (Encoded /\ SamePair(result, prev))

\* C3: an angle shifted by more than one turn, without rounding, to a
\* negative angle was encoded to a class above 0 and a non-zero residual
C3_Witness ==
    /\ Encoded /\ how = "shifted" /\ exact
    /\ turns \notin {-1, 1}
    /\ angle.s = 1
    /\ result.class_id > 0
    /\ ~IsZero(result.residual)
    /\ SamePair(result, prev)

\* C4 as stated: re-encoding the angle rebuilt as (c + r) * (2*pi/num_class)
\* returns the same pair (c, r).
C4_RoundTripExact ==
    (Encoded /\ how = "decoded") => SamePair(result, prev)

\* C4 amended: the angle rebuilt as (c + r) * (2*pi/num_class) is congruent
\* to the original angle modulo 2*pi up to floating-point rounding (the two
\* normalized angles are within 2^-48 of each other around the circle), and
\* re-encoding it never fails.
C4_RoundTripClose ==
    (how = "decoded" /\ pc # "ready")
        => (Encoded /\ CloseMod2Pi(result.normalized, prev.normalized))

C4_Witness ==
    /\ Encoded /\ how = "decoded"
    /\ ~SamePair(result, prev)
    /\ CloseMod2Pi(result.normalized, prev.normalized)

\* C5: with num_class = 4, angle 0 encodes to class_id 0 and residual 0.5,
\* and angle pi encodes to class_id 2 and residual 0.5.
C5_ConcreteScenario ==
    (Encoded /\ how = "given" /\ num_class = 4)
        => /\ angle = Zero
                => result.class_id = 0 /\ result.residual = Half(FInt(1))
           /\ angle = Pi
                => result.class_id = 2 /\ result.residual = Half(FInt(1))

\* C10 as stated: for every finite angle the value after the first modulo
\* lies in [0, 2*pi), so the assertion holds and the function returns.
C10_NormalizedHalfOpen ==
    pc # "ready"
        => /\ Encoded
           /\ FLe(Zero, result.normalized)
           /\ FLt(result.normalized, TwoPi)

\* C10 amended: for every finite angle the value after the first modulo lies
\* in the closed interval [0, 2*pi] (it equals 2*pi for a negative angle
\* smaller than half a unit in the last place of 2*pi), so the assertion
\* holds and the function returns.
C10_AssertionNeverFails ==
    pc # "ready"
        => /\ Encoded
           /\ FLe(Zero, result.normalized)
           /\ FLe(result.normalized, TwoPi)

C10_Witness ==
    Encoded /\ how = "given" /\ angle.s = 1 /\ result.normalized = TwoPi


---------------------------------------------------------------------------
(* Properties of the box encoders, checked on SpecBox                      *)

\* the record of a call of one of the named encoders
CallOf(r, names) == r # None /\ r.call \in names

FreeNames == {"free_tf", "free_np"}

\* t has the shape [bs, points_num, 3] of the ground-truth centres of b
SameShape(t, b) ==
    /\ Len(t) = Len(b.gt_ctr)
    /\ \A i \in DOMAIN t :
          /\ Len(t[i]) = Len(b.gt_ctr[i])
          /\ \A j \in DOMAIN t[i] : Len(t[i][j]) = 3

\* both calls were made, on the same inputs, one by each of the two encoders
PairOn(a, b) ==
    /\ before # None
    /\ last.box = before.box
    /\ {last.call, before.call} = {a, b}

\* the doubles a term log(x) may be: the rounded logarithm of x, moved by
\* one of the numbers of units the library may be off by
Values(t) == {[log |-> t.log, ulps |-> d] : d \in t.ulps}

\* two terms are the same double whatever the two libraries return
SameValue(s, t) == \A v \in Values(s), w \in Values(t) : v = w

LogOf(name) == IF name = "log_tf" THEN "tf.log" ELSE "np.log"

\* the component (i, j, c) of encoded_offset is the log, by the library of
\* the encoder, of gt / anchor of that same component, at most MaxLogUlp
\* units in the last place from the rounded logarithm
LogOfComponent(r, i, j, c) ==
    /\ r.out.offset[i][j][c].log =
          FDiv(r.box.gt_offset[i][j][c], r.box.anchor_offset[i][j][c])
    /\ r.out.offset[i][j][c].by = LogOf(r.call)
    /\ r.out.offset[i][j][c].ulps \subseteq (-MaxLogUlp)..MaxLogUlp

C7_DistAnchor ==
    CallOf(last, {"dist"}) =>
        \A i \in DOMAIN last.box.gt_ctr : \A j \in DOMAIN last.box.gt_ctr[i] :
            /\ \A c \in 1..3 :
                  /\ last.out.ctr[i][j][c] =
                        FSub(last.box.gt_ctr[i][j][c], last.box.anchor_ctr[i][j][c])
                  /\ last.out.offset[i][j][c] =
                        FDiv(FSub(last.box.gt_offset[i][j][c],
                                  last.box.anchor_offset[i][j][c]),
                             last.box.anchor_offset[i][j][c])
            /\ (/\ last.box.gt_ctr[i][j] = last.box.anchor_ctr[i][j]
                /\ last.box.gt_offset[i][j] = last.box.anchor_offset[i][j])
               => /\ last.out.ctr[i][j] = <<Zero, Zero, Zero>>
                  /\ last.out.offset[i][j] = <<Zero, Zero, Zero>>
            /\ (/\ last.box.gt_ctr[i][j] = <<FInt(1), FInt(2), FInt(3)>>
                /\ last.box.anchor_ctr[i][j] = <<Zero, Zero, Zero>>
                /\ last.box.gt_offset[i][j] = <<FInt(2), FInt(4), FInt(6)>>
                /\ last.box.anchor_offset[i][j] = <<FInt(1), FInt(2), FInt(3)>>)
               => /\ last.out.ctr[i][j] = <<FInt(1), FInt(2), FInt(3)>>
                  /\ last.out.offset[i][j] = <<FInt(1), FInt(1), FInt(1)>>

\* encode_dist_anchor ran on a batch whose first box is its own anchor, and
\* returned zeros for it, and whose second box is (1,2,3),(2,4,6) against the
\* anchor (0,0,0),(1,2,3), and returned (1,2,3),(1,1,1) for it
C7_Witness ==
    /\ CallOf(last, {"dist"})
    /\ Len(last.box.gt_ctr[1]) = 2
    /\ last.box.gt_ctr[1][1] = last.box.anchor_ctr[1][1]
    /\ last.box.gt_offset[1][1] = last.box.anchor_offset[1][1]
    /\ last.out.ctr[1][1] = <<Zero, Zero, Zero>>
    /\ last.out.offset[1][1] = <<Zero, Zero, Zero>>
    /\ last.box.gt_ctr[1][2] = <<FInt(1), FInt(2), FInt(3)>>
    /\ last.box.anchor_offset[1][2] = <<FInt(1), FInt(2), FInt(3)>>
    /\ last.out.ctr[1][2] = <<FInt(1), FInt(2), FInt(3)>>
    /\ last.out.offset[1][2] = <<FInt(1), FInt(1), FInt(1)>>

\* C8: the second output of the anchor-free encoders is gt_offset / 2; two
\* calls with the same gt_offset return the same second output whatever the
\* anchors are, and two calls that differ in anchor_offset only (given or
\* left out) return the same pair
C8_HalfOffsetIgnoresAnchors ==
    /\ CallOf(last, FreeNames) =>
          \A i \in DOMAIN last.box.gt_offset : \A j \in DOMAIN last.box.gt_offset[i] :
             \A c \in 1..3 :
                last.out.offset[i][j][c] = FDiv(last.box.gt_offset[i][j][c], FInt(2))
    /\ (/\ CallOf(last, FreeNames)
        /\ CallOf(before, FreeNames)
        /\ last.box.gt_offset = before.box.gt_offset)
       => /\ last.out.offset = before.out.offset
          /\ (/\ last.box.gt_ctr = before.box.gt_ctr
              /\ last.box.anchor_ctr = before.box.anchor_ctr)
             => last.out = before.out

\* the two anchor-free encoders ran on the same ground truth, one with anchor
\* offsets and one without, and returned the same half offsets, 0.35 among them
C8_Witness ==
    /\ CallOf(last, FreeNames)
    /\ CallOf(before, FreeNames)
    /\ last.call # before.call
    /\ before.box.anchor_offset # NoneTensor
    /\ last.box.anchor_offset = NoneTensor
    /\ last.out.offset = before.out.offset
    /\ \E j \in DOMAIN last.out.offset[1] :
          last.out.offset[1][j][2] = Ratio(35, 100)

\* C9: the anchor-free encoders return, for every box, the centre
\* (gt_x - anchor_x, (gt_y - height / 2) - anchor_y, gt_z - anchor_z), and two
\* calls that differ in the length and width of gt_offset only return the
\* same centres
C9_TranslatesHeightOnly ==
    /\ CallOf(last, FreeNames) =>
          \A i \in DOMAIN last.box.gt_ctr : \A j \in DOMAIN last.box.gt_ctr[i] :
             /\ last.out.ctr[i][j][1] =
                   FSub(last.box.gt_ctr[i][j][1], last.box.anchor_ctr[i][j][1])
             /\ last.out.ctr[i][j][2] =
                   FSub(FSub(last.box.gt_ctr[i][j][2],
                             FDiv(last.box.gt_offset[i][j][2], FInt(2))),
                        last.box.anchor_ctr[i][j][2])
             /\ last.out.ctr[i][j][3] =
                   FSub(last.box.gt_ctr[i][j][3], last.box.anchor_ctr[i][j][3])
    /\ (/\ CallOf(last, FreeNames)
        /\ CallOf(before, FreeNames)
        /\ last.box.gt_ctr = before.box.gt_ctr
        /\ last.box.anchor_ctr = before.box.anchor_ctr
        /\ Unstack(last.box.gt_offset, 2) = Unstack(before.box.gt_offset, 2))
       => last.out.ctr = before.out.ctr

\* an anchor-free encoder ran twice, the second time on boxes of another
\* length and width, and returned the same centres, lowered by half a height
C9_Witness ==
    /\ CallOf(last, FreeNames)
    /\ CallOf(before, FreeNames)
    /\ Unstack(last.box.gt_offset, 1) # Unstack(before.box.gt_offset, 1)
    /\ Unstack(last.box.gt_offset, 3) # Unstack(before.box.gt_offset, 3)
    /\ last.out.ctr = before.out.ctr
    /\ last.out.ctr[1][1][2] #
          FSub(last.box.gt_ctr[1][1][2], last.box.anchor_ctr[1][1][2])
    /\ last.box.gt_offset[1][1][1] # last.box.gt_offset[1][1][2]

=============================================================================
